---- MODULE Spec2Model ----
(***************************************************************************)
(* Model of the rule evaluation engine of cfn-security-scanner:            *)
(* RuleEngine.registerRule and RuleEngine.evaluate (src/utils/cfnYaml.js). *)
(*                                                                         *)
(* The registry is a JavaScript Map; it is modelled as the sequence of its *)
(* values in insertion order.  A template is the sequence of the entries   *)
(* of its Resources object (Object.entries order).  A predicate is         *)
(* supplied by the rule author: every invocation draws its outcome from    *)
(* Outcomes, and the invocation is recorded in the log `calls`.            *)
(***************************************************************************)
EXTENDS Integers, Sequences, FiniteSets, TLC

VARIABLES rules, pc, thrown, template, filePath, results, ri, xi, calls

\* history of the registerRule calls: the descriptor passed to the call that
\* has just returned, and the ids in the order of their first registration
VARIABLES arg, firstReg

\* the evaluate call before the current one on the same engine: whether
\* there was one, what it returned, and its predicate invocations
VARIABLES prev

\* the Scanner that owns the engine: its options, whether initialize has
\* run, its accumulated results and its counters
VARIABLES options, spc, scanned, stats

\* the predicate invocations of the current evaluate call that have not
\* settled, and a second evaluate call on the same engine that is suspended at
\* an await while the current one runs
VARIABLES pending, other

\* what the last scanFile call returned, and the scanDirectory call in
\* progress
VARIABLES ret, dir

vars == <<rules, pc, thrown, template, filePath, results, ri, xi, calls,
          arg, firstReg, prev, options, spc, scanned, stats,
          pending, other, ret, dir>>

\* the fields of the Scanner
scanner == <<options, spc, scanned, stats>>

\* what no step of an evaluate call touches
outside == <<arg, firstReg, prev, options, spc, scanned, stats, other, ret, dir>>

----------------------------------------------------------------------------
(* Bounds *)

MaxRules == 2
MaxRes == 2

\* scanFile calls of one Scanner that read a file
MaxScans == 2

----------------------------------------------------------------------------
(* Values *)

\* A property that is absent from a JavaScript object reads as undefined.
Undefined == "undefined"

TemplateType == "AWS::CloudFormation::Template"
S3Type == "AWS::S3::Bucket"

\* an absent property whose value would be an array
UndefinedList == <<Undefined>>

\* undefined and the empty string are falsy, the other values used here
\* are truthy
Falsy(a) == a \in {Undefined, ""}

\* a || b
Or(a, b) == IF Falsy(a) THEN b ELSE a

OrList(a, b) == IF a = UndefinedList THEN b ELSE a

Includes(seq, v) == \E i \in 1..Len(seq) : seq[i] = v

\* the increasing index sequences of length at most n into a sequence cat
SubSeqs(cat, n) ==
  {s \in UNION {[1..k -> 1..Len(cat)] : k \in 0..n} :
     \A i, j \in DOMAIN s : i < j => s[i] < s[j]}

Pick(cat, s) == [i \in DOMAIN s |-> cat[s[i]]]

----------------------------------------------------------------------------
(* Inputs: rule descriptors handed to registerRule.  The evaluate field   *)
(* names the predicate: a "detailed" predicate fills message and details  *)
(* of its results as RULES.md shows, a "terse" one leaves message out or   *)
(* empty and gives no details.                                             *)

S3Descriptor ==
  [id |-> "CFN_S3_001", name |-> "S3 Bucket Encryption Enabled",
   description |-> "Ensure S3 bucket has server-side encryption enabled",
   severity |-> "HIGH", category |-> "encryption",
   resourceTypes |-> <<S3Type>>,
   frameworks |-> <<"CIS", "SOC2", "HIPAA", "PCI-DSS">>,
   remediation |-> "Enable BucketEncryption", documentation |-> "https://docs/s3",
   evaluate |-> "detailed"]

GenDescriptor ==
  [id |-> "CFN_GEN_001", name |-> "No Hardcoded Credentials",
   description |-> "Ensure templates do not contain hardcoded credentials",
   severity |-> "CRITICAL", category |-> "encryption",
   resourceTypes |-> <<TemplateType>>,
   frameworks |-> <<"SOC2", "HIPAA", "PCI-DSS">>,
   remediation |-> "Use AWS Secrets Manager", documentation |-> "https://docs/dynref",
   evaluate |-> "detailed"]

\* a descriptor that gives only the mandatory fields
BareDescriptor ==
  [id |-> "CUSTOM_001", name |-> Undefined, description |-> Undefined,
   severity |-> Undefined, category |-> Undefined,
   resourceTypes |-> UndefinedList, frameworks |-> UndefinedList,
   remediation |-> Undefined, documentation |-> Undefined,
   evaluate |-> "terse"]

NoIdDescriptor == [S3Descriptor EXCEPT !.id = Undefined]

NoEvaluateDescriptor == [GenDescriptor EXCEPT !.evaluate = Undefined]

ValidDescriptors == {S3Descriptor, GenDescriptor, BareDescriptor}

\* no registerRule call has just returned
NoDescriptor ==
  [id |-> Undefined, name |-> Undefined, description |-> Undefined,
   severity |-> Undefined, category |-> Undefined,
   resourceTypes |-> UndefinedList, frameworks |-> UndefinedList,
   remediation |-> Undefined, documentation |-> Undefined,
   evaluate |-> Undefined]

Descriptors == ValidDescriptors \cup {NoIdDescriptor, NoEvaluateDescriptor}

----------------------------------------------------------------------------
(* Inputs: templates *)

\* entries of a Resources object: logical id, declared Type, Properties.
\* A template holds some of them, in this order.
ResourceCatalog ==
  << [name |-> "TestBucket", Type |-> S3Type, Properties |-> "props"],
     [name |-> "Template", Type |-> S3Type, Properties |-> Undefined],
     [name |-> "Untyped", Type |-> Undefined, Properties |-> "props"] >>

\* a template without a Resources section
NoResourcesTemplate == [hasResources |-> FALSE, Resources |-> <<>>]

Templates ==
  {NoResourcesTemplate} \cup
  {[hasResources |-> TRUE, Resources |-> r] :
     r \in {Pick(ResourceCatalog, x) : x \in SubSeqs(ResourceCatalog, MaxRes)}}

FilePaths == {"test.yaml"}

----------------------------------------------------------------------------
(* Inputs: what one predicate invocation does *)

Outcome(kind, passed, message, details) ==
  [kind |-> kind, passed |-> passed, message |-> message, details |-> details]

\* passed is read only of a result
Null == Outcome("null", FALSE, Undefined, Undefined)
Throws == Outcome("throw", FALSE, "boom", Undefined)
ReturnsUndefined == Outcome("undefined", FALSE, Undefined, Undefined)

ResultOutcomes(predicate) ==
  IF predicate = "detailed"
    THEN { Outcome("result", TRUE, "Check passed successfully", Undefined),
           Outcome("result", FALSE, "Specific failure reason", "details") }
    ELSE { Outcome("result", TRUE, Undefined, Undefined),
           Outcome("result", FALSE, "", Undefined) }

\* the ways one invocation of a predicate can end
Outcomes(predicate) ==
  {Null, Throws, ReturnsUndefined} \cup ResultOutcomes(predicate)

AllOutcomes == Outcomes("detailed") \cup Outcomes("terse")

\* Faults that takes undefined for a result
Faults_ThrowOnly(o) == o.kind = "throw"

\* the invocation ends in an exception inside the try block: the predicate
\* throws or rejects, or the engine reads .passed of undefined
Faults(o) == o.kind \in {"throw", "undefined"}

----------------------------------------------------------------------------
(* Rule registry *)

HasRule(rs, id) == \E i \in 1..Len(rs) : rs[i].id = id

\* MapSet that moves an existing key to the end of the iteration order
MapSet_MovesToEnd(rs, rule) ==
  Append(SelectSeq(rs, LAMBDA r : r.id # rule.id), rule)

\* Map.prototype.set: a new key is appended to the iteration order, an
\* existing key keeps its position and gets the new value
MapSet(rs, rule) ==
  IF HasRule(rs, rule.id)
    THEN [i \in 1..Len(rs) |-> IF rs[i].id = rule.id THEN rule ELSE rs[i]]
    ELSE Append(rs, rule)

\* StoredRule that stores the descriptor as given
StoredRule_NoDefaults(d) == d

\* the record registerRule stores for a descriptor
StoredRule(d) ==
  [id |-> d.id,
   name |-> Or(d.name, d.id),
   description |-> Or(d.description, ""),
   severity |-> Or(d.severity, "MEDIUM"),
   category |-> Or(d.category, "general"),
   resourceTypes |-> OrList(d.resourceTypes, <<>>),
   frameworks |-> OrList(d.frameworks, <<>>),
   remediation |-> Or(d.remediation, ""),
   documentation |-> Or(d.documentation, ""),
   evaluate |-> d.evaluate]

\* Malformed without the test of evaluate
Malformed_IdOnly(d) == Falsy(d.id)

\* !rule.id || !rule.evaluate
Malformed(d) == Falsy(d.id) \/ Falsy(d.evaluate)

----------------------------------------------------------------------------
(* Findings *)

\* template.Resources || {}
\* ResourcesOf that takes a missing section for a section with one entry
ResourcesOf_NoDefault(t) ==
  IF t.hasResources THEN t.Resources
  ELSE <<[name |-> Undefined, Type |-> Undefined, Properties |-> Undefined]>>

\* template.Resources || {}
ResourcesOf(t) == IF t.hasResources THEN t.Resources ELSE <<>>

\* the negation of the `continue` condition of the resource loop
Applies(rule, resourceType) ==
  ~(Len(rule.resourceTypes) > 0 /\ ~Includes(rule.resourceTypes, resourceType))

\* the condition of the template-level check
TemplateLevel(rule) ==
  Len(rule.resourceTypes) = 0 \/ Includes(rule.resourceTypes, TemplateType)

\* StatusOf with the two branches exchanged
StatusOf_Swapped(o) == IF o.passed THEN "FAILED" ELSE "PASSED"

StatusOf(o) == IF o.passed THEN "PASSED" ELSE "FAILED"

\* MessageOf without the fallback text
MessageOf_NoDefault(o) == o.message

\* evaluation.message || (evaluation.passed ? 'Check passed' : 'Check failed')
MessageOf(o) ==
  Or(o.message, IF o.passed THEN "Check passed" ELSE "Check failed")

\* evaluation.details || {}
DetailsOf(o) == Or(o.details, "{}")

\* the object pushed for a predicate result
ResultFinding(rule, o, resourceName, resourceType, fp) ==
  [ruleId |-> rule.id, ruleName |-> rule.name,
   description |-> rule.description, severity |-> rule.severity,
   category |-> rule.category, status |-> StatusOf(o),
   resourceName |-> resourceName, resourceType |-> resourceType,
   filePath |-> fp, message |-> MessageOf(o),
   remediation |-> rule.remediation, documentation |-> rule.documentation,
   details |-> DetailsOf(o)]

\* `Error evaluating rule: ${error.message}` for the exception the catch
\* block receives
ErrorMessage(o) ==
  IF o.kind = "throw" THEN "Error evaluating rule: boom"
  ELSE "Error evaluating rule: Cannot read properties of undefined (reading 'passed')"

\* the object pushed by the catch block; the fields it does not set read
\* as undefined
ErrorFinding(rule, o, fp) ==
  [ruleId |-> rule.id, ruleName |-> rule.name,
   description |-> Undefined, severity |-> rule.severity,
   category |-> Undefined, status |-> "ERROR",
   resourceName |-> Undefined, resourceType |-> Undefined,
   filePath |-> fp, message |-> ErrorMessage(o),
   remediation |-> Undefined, documentation |-> Undefined,
   details |-> Undefined]

\* results.some(r => r.ruleId === rule.id && r.resourceName === null):
\* null is the value "null", which no resourceName of a finding is
\* TemplateFindingExists that looks for the name template-level findings carry
TemplateFindingExists_ByName(res, rule) ==
  \E i \in 1..Len(res) : res[i].ruleId = rule.id /\ res[i].resourceName = "Template"

\* results.some(r => r.ruleId === rule.id && r.resourceName === null)
TemplateFindingExists(res, rule) ==
  \E i \in 1..Len(res) : res[i].ruleId = rule.id /\ res[i].resourceName = "null"

\* PushResult without the null test: a finding for every settled invocation
PushResult_IgnoresNull(res, rule, o, resource, fp) ==
  Append(res, ResultFinding(rule, o, resource.name, resource.Type, fp))

\* PushResult with unshift in place of push
PushResult_Prepends(res, rule, o, resource, fp) ==
  IF o # Null
    THEN <<ResultFinding(rule, o, resource.name, resource.Type, fp)>> \o res
    ELSE res

\* resource loop: if (evaluation !== null) results.push({...})
PushResult(res, rule, o, resource, fp) ==
  IF o # Null
    THEN Append(res, ResultFinding(rule, o, resource.name, resource.Type, fp))
    ELSE res

\* template-level check: if (evaluation !== null && !results.some(...))
\* results.push({...})
PushTemplateResult(res, rule, o, fp) ==
  IF o # Null /\ ~TemplateFindingExists(res, rule)
    THEN Append(res, ResultFinding(rule, o, "Template", TemplateType, fp))
    ELSE res

\* CatchFault without the try/catch: the exception leaves evaluate
CatchFault_Propagates(res, rule, o, fp) ==
  [results |-> res, thrown |-> TRUE, pc |-> "done"]

\* what the try/catch around one rule does with an exception: the finding,
\* whether evaluate rejects, and where evaluate goes on
CatchFault(res, rule, o, fp) ==
  [results |-> Append(res, ErrorFinding(rule, o, fp)),
   thrown |-> FALSE, pc |-> "running"]

\* NewResults that goes on with the list of the call before
NewResults_Kept(old) == old

\* const results = []: the list a call starts with, whatever list the call
\* before has returned
NewResults(old) == <<>>

\* the invocations that have not settled when the one of rule r in context
\* c settles
Settled(p, r, c) == SelectSeq(p, LAMBDA x : x # [rule |-> r, ctx |-> c])

\* no second evaluate call
NoOther ==
  [pc |-> "none", thrown |-> FALSE, template |-> [hasResources |-> FALSE, Resources |-> <<>>],
   filePath |-> Undefined, results |-> <<>>, ri |-> 1, xi |-> 1, calls |-> <<>>,
   pending |-> <<>>]

\* scanFile has not returned
NoReturn == [file |-> Undefined, error |-> Undefined, results |-> <<>>]

\* no scanDirectory call in progress
NoDirectory ==
  [phase |-> "none", listing |-> <<>>, queue |-> <<>>, file |-> Undefined,
   entries |-> <<>>]

\* no evaluate call before the current one
NoPrev == [done |-> FALSE, results |-> <<>>, calls |-> <<>>, rules |-> <<>>]

(***************************************************************************)
(* The Scanner (src/scanner.js): options, rule selection, threshold.       *)
(***************************************************************************)

\* the argument of new Scanner(): a key that is left out is undefined
NoOptions ==
  [failOnSeverity |-> Undefined, skipRules |-> UndefinedList,
   includeRules |-> UndefinedList, framework |-> Undefined]

\* { ...defaults, ...o }: a key that o has overrides the default
Spread(defaults, o) ==
  [failOnSeverity |-> IF o.failOnSeverity = Undefined
                        THEN defaults.failOnSeverity ELSE o.failOnSeverity,
   skipRules |-> IF o.skipRules = UndefinedList
                   THEN defaults.skipRules ELSE o.skipRules,
   includeRules |-> IF o.includeRules = UndefinedList
                      THEN defaults.includeRules ELSE o.includeRules,
   framework |-> IF o.framework = Undefined
                   THEN defaults.framework ELSE o.framework]

\* this.options of the constructor
Options(o) ==
  Spread([failOnSeverity |-> Or(o.failOnSeverity, "HIGH"),
          skipRules |-> OrList(o.skipRules, <<>>),
          includeRules |-> OrList(o.includeRules, <<>>),
          framework |-> Or(o.framework, "all")], o)

\* CFN_S3_007 of the S3 rules
S3LifecycleDescriptor ==
  [id |-> "CFN_S3_007", name |-> "S3 Bucket Lifecycle Configuration",
   description |-> "Ensure S3 bucket has lifecycle configuration",
   severity |-> "LOW", category |-> "data-protection",
   resourceTypes |-> <<S3Type>>, frameworks |-> <<"SOC2">>,
   remediation |-> "Configure lifecycle rules", documentation |-> "https://docs/lifecycle",
   evaluate |-> "detailed"]

\* loadAllRules(): the S3 rules first, the general rules last
LoadedRules == <<S3Descriptor, S3LifecycleDescriptor, GenDescriptor>>

\* the option objects given to the constructor
OptionInputs ==
  { NoOptions,
    [NoOptions EXCEPT !.failOnSeverity = "HIGH", !.skipRules = <<"CFN_S3_007">>,
                      !.framework = "SOC2"],
    [NoOptions EXCEPT !.skipRules = <<"CFN_S3_001">>],
    [NoOptions EXCEPT !.failOnSeverity = "CRITICAL",
                      !.skipRules = <<"CFN_S3_001">>,
                      !.includeRules = <<"CFN_S3_001", "CFN_GEN_001">>],
    [NoOptions EXCEPT !.failOnSeverity = "LOW",
                      !.includeRules = <<"CFN_S3_007">>,
                      !.framework = "HIPAA"],
    [NoOptions EXCEPT !.failOnSeverity = "MEDIUM", !.framework = "HIPAA"],
    [NoOptions EXCEPT !.failOnSeverity = "INFO", !.skipRules = <<"CFN_GEN_001">>,
                      !.framework = "all"] }

\* rule.frameworks?.includes(framework)
HasFramework(rule, framework) ==
  rule.frameworks # UndefinedList /\ Includes(rule.frameworks, framework)

\* Listed that accepts every rule
Listed_Any(o, rule) == TRUE

\* this.options.includeRules.includes(rule.id)
Listed(o, rule) == Includes(o.includeRules, rule.id)

\* ShouldIncludeRule that looks at includeRules before skipRules
ShouldIncludeRule_IncludeFirst(o, rule) ==
  IF Len(o.includeRules) > 0 THEN Listed(o, rule)
  ELSE IF Includes(o.skipRules, rule.id) THEN FALSE
  ELSE IF o.framework # "all" THEN HasFramework(rule, o.framework)
  ELSE TRUE

\* shouldIncludeRule(rule)
ShouldIncludeRule(o, rule) ==
  IF Includes(o.skipRules, rule.id) THEN FALSE
  ELSE IF Len(o.includeRules) > 0 THEN Listed(o, rule)
  ELSE IF o.framework # "all" THEN HasFramework(rule, o.framework)
  ELSE TRUE

\* the loop of initialize over the loaded rules from position i on
RECURSIVE RegisterLoaded(_, _, _)
RegisterLoaded(rs, o, i) ==
  IF i > Len(LoadedRules) THEN rs
  ELSE RegisterLoaded(IF ShouldIncludeRule(o, LoadedRules[i])
                        THEN MapSet(rs, StoredRule(LoadedRules[i]))
                        ELSE rs,
                      o, i + 1)

\* severityOrder of shouldFail
SeverityOrder == <<"INFO", "LOW", "MEDIUM", "HIGH", "CRITICAL">>

\* Array.prototype.indexOf, counted from 0, -1 when absent
IndexOf(seq, v) ==
  IF Includes(seq, v)
    THEN (CHOOSE i \in 1..Len(seq) :
            seq[i] = v /\ \A j \in 1..(i - 1) : seq[j] # v) - 1
    ELSE -1

\* ShouldFail that asks for a severity above the threshold
ShouldFail_Above(res, failOnSeverity) ==
  LET threshold == IndexOf(SeverityOrder, failOnSeverity) IN
  \E i \in 1..Len(res) :
    /\ res[i].status = "FAILED"
    /\ IndexOf(SeverityOrder, res[i].severity) > threshold

\* shouldFail()
ShouldFail(res, failOnSeverity) ==
  LET threshold == IndexOf(SeverityOrder, failOnSeverity) IN
  \E i \in 1..Len(res) :
    /\ res[i].status = "FAILED"
    /\ IndexOf(SeverityOrder, res[i].severity) >= threshold

\* the number of results with a status
CountStatus(res, status) ==
  Cardinality({i \in 1..Len(res) : res[i].status = status})

\* the context object of the resource loop (template and filePath are the
\* arguments of the call)
ResourceContext(resource) ==
  [resourceName |-> resource.name, resourceType |-> resource.Type,
   properties |-> Or(resource.Properties, "{}")]

\* the context object of the template-level check
TemplateContext ==
  [resourceName |-> "null", resourceType |-> TemplateType, properties |-> "{}"]

\* one entry of the invocation log: rule index, position of the context
\* (resource index, 0 for the template as a whole), the context object, the
\* outcome, and the index in results of the finding the invocation led to
\* (0 for none)
Call(r, c, context, o, at) ==
  [rule |-> r, ctx |-> c, context |-> context, out |-> o, at |-> at]

PushedAt(before, after) == IF Len(after) > Len(before) THEN Len(after) ELSE 0

----------------------------------------------------------------------------
(* State machine *)

\* new RuleEngine()
EngineInit ==
  /\ rules = <<>>
  /\ pc = "idle"
  /\ thrown = FALSE
  /\ template = NoResourcesTemplate
  /\ filePath = Undefined
  /\ results = <<>>
  /\ ri = 1
  /\ xi = 1
  /\ calls = <<>>
  /\ arg = NoDescriptor
  /\ firstReg = <<>>
  /\ prev = NoPrev
  /\ pending = <<>>
  /\ other = NoOther

\* new Scanner(o)
Constructor(o) ==
  /\ options = Options(o)
  /\ spc = "new"
  /\ scanned = <<>>
  /\ stats = [filesScanned |-> 0, passed |-> 0, failed |-> 0, skipped |-> 0,
              errors |-> 0]
  /\ ret = NoReturn
  /\ dir = NoDirectory

\* new Scanner(): an engine with an empty registry and the default options
Init == EngineInit /\ Constructor(NoOptions)

\* registerRule(rule) with a descriptor that lacks id or evaluate
RegisterRuleThrows(d) ==
  /\ pc = "idle"
  /\ Malformed(d)
  /\ thrown' = TRUE
  /\ arg' = d
  /\ UNCHANGED <<rules, pc, template, filePath, results, ri, xi, calls, firstReg>>
  /\ UNCHANGED <<prev, scanner, pending, other, ret, dir>>

\* RegisterRule that keeps the stored rule when the id is present
RegisterRule_KeepsFirst(d) ==
  /\ pc = "idle"
  /\ ~Malformed(d)
  /\ HasRule(rules, d.id) \/ Len(rules) < MaxRules
  /\ rules' = IF HasRule(rules, d.id) THEN rules ELSE Append(rules, StoredRule(d))
  /\ thrown' = FALSE
  /\ arg' = d
  /\ firstReg' = IF Includes(firstReg, d.id) THEN firstReg ELSE Append(firstReg, d.id)
  /\ UNCHANGED <<pc, template, filePath, results, ri, xi, calls>>
  /\ UNCHANGED <<prev, scanner, pending, other, ret, dir>>

\* registerRule(rule)
RegisterRule(d) ==
  /\ pc = "idle"
  /\ ~Malformed(d)
  /\ HasRule(rules, d.id) \/ Len(rules) < MaxRules
  /\ rules' = MapSet(rules, StoredRule(d))
  /\ thrown' = FALSE
  /\ arg' = d
  /\ firstReg' = IF Includes(firstReg, d.id) THEN firstReg ELSE Append(firstReg, d.id)
  /\ UNCHANGED <<pc, template, filePath, results, ri, xi, calls>>
  /\ UNCHANGED <<prev, scanner, pending, other, ret, dir>>

\* evaluate(template, filePath) up to the first rule
EvaluateStart(t, fp) ==
  /\ pc = "idle"
  /\ pc' = "running"
  /\ thrown' = FALSE
  /\ template' = t
  /\ filePath' = fp
  /\ results' = NewResults(results)
  /\ ri' = 1
  /\ xi' = 1
  /\ calls' = <<>>
  /\ arg' = NoDescriptor
  /\ UNCHANGED <<rules, firstReg, prev, scanner, pending, other, ret, dir>>

InRule == pc = "running" /\ ri <= Len(rules)

InResources == InRule /\ xi <= Len(ResourcesOf(template))

AfterResources == InRule /\ xi > Len(ResourcesOf(template))

\* Fault that enters the try block of the same rule again
Fault_Retries(o, c, context) ==
  LET after == CatchFault(results, rules[ri], o, filePath) IN
  /\ results' = after.results
  /\ thrown' = after.thrown
  /\ pc' = after.pc
  /\ calls' = Append(calls, Call(ri, c, context, o, PushedAt(results, after.results)))
  /\ ri' = ri
  /\ xi' = 1

\* Fault that goes on with the next context of the same rule
Fault_Continues(o, c, context) ==
  LET after == CatchFault(results, rules[ri], o, filePath) IN
  /\ results' = after.results
  /\ thrown' = after.thrown
  /\ pc' = after.pc
  /\ calls' = Append(calls, Call(ri, c, context, o, PushedAt(results, after.results)))
  /\ ri' = IF c = 0 THEN ri + 1 ELSE ri
  /\ xi' = IF c = 0 THEN 1 ELSE xi + 1

\* the exception leaves the try block of the current rule
Fault(o, c, context) ==
  LET after == CatchFault(results, rules[ri], o, filePath) IN
  /\ results' = after.results
  /\ thrown' = after.thrown
  /\ pc' = after.pc
  /\ calls' = Append(calls, Call(ri, c, context, o, PushedAt(results, after.results)))
  /\ ri' = ri + 1
  /\ xi' = 1

\* resource loop: the rule does not apply to the resource's type
ResourceSkip ==
  /\ InResources
  /\ ~Applies(rules[ri], ResourcesOf(template)[xi].Type)
  /\ xi' = xi + 1
  /\ UNCHANGED <<rules, pc, thrown, template, filePath, results, ri, calls>>
  /\ UNCHANGED <<outside, pending>>

\* resource loop: the predicate is invoked on the resource and settles
ResourceCheck(o) ==
  /\ InResources
  /\ o \in Outcomes(rules[ri].evaluate)
  /\ LET rule == rules[ri]
         resource == ResourcesOf(template)[xi]
     IN
     /\ Applies(rule, resource.Type)
     /\ IF Faults(o)
          THEN Fault(o, xi, ResourceContext(resource))
          ELSE /\ results' = PushResult(results, rule, o, resource, filePath)
               /\ calls' = Append(calls, Call(ri, xi, ResourceContext(resource), o,
                                               PushedAt(results, results')))
               /\ xi' = xi + 1
               /\ UNCHANGED <<pc, thrown, ri>>
  /\ pending' = Settled(pending, ri, xi)
  /\ UNCHANGED <<rules, template, filePath>>
  /\ UNCHANGED outside

\* template-level check of a rule: the predicate is invoked with the
\* template context and settles
TemplateCheck(o) ==
  /\ AfterResources
  /\ o \in Outcomes(rules[ri].evaluate)
  /\ LET rule == rules[ri] IN
     /\ TemplateLevel(rule)
     /\ IF Faults(o)
          THEN Fault(o, 0, TemplateContext)
          ELSE /\ results' = PushTemplateResult(results, rule, o, filePath)
               /\ calls' = Append(calls, Call(ri, 0, TemplateContext, o,
                                               PushedAt(results, results')))
               /\ ri' = ri + 1
               /\ xi' = 1
               /\ UNCHANGED <<pc, thrown>>
  /\ pending' = Settled(pending, ri, 0)
  /\ UNCHANGED <<rules, template, filePath>>
  /\ UNCHANGED outside

\* a rule without template-level check: on to the next rule
NextRule ==
  /\ AfterResources
  /\ ~TemplateLevel(rules[ri])
  /\ ri' = ri + 1
  /\ xi' = 1
  /\ UNCHANGED <<rules, pc, thrown, template, filePath, results, calls>>
  /\ UNCHANGED <<outside, pending>>

\* return results
Return ==
  /\ pc = "running"
  /\ ri > Len(rules)
  /\ pc' = "done"
  /\ UNCHANGED <<rules, thrown, template, filePath, results, ri, xi, calls>>
  /\ UNCHANGED <<outside, pending>>

Next ==
  \/ \E d \in Descriptors : RegisterRuleThrows(d)
  \/ \E d \in Descriptors : RegisterRule(d)
  \/ \E t \in Templates, fp \in FilePaths : EvaluateStart(t, fp)
  \/ ResourceSkip
  \/ \E o \in AllOutcomes : ResourceCheck(o)
  \/ \E o \in AllOutcomes : TemplateCheck(o)
  \/ NextRule
  \/ Return

Spec == Init /\ [][Next]_vars

----------------------------------------------------------------------------
(* Properties of evaluate *)

Resources == ResourcesOf(template)

RuleIdx == 1..Len(rules)

CallIdx == 1..Len(calls)

FindingIdx == 1..Len(results)

\* the invocations of the rule at position r of the registry
CallsOf(r) == {k \in CallIdx : calls[k].rule = r}

\* the findings that carry the id of the rule at position r
FindingsOf(r) == {i \in FindingIdx : results[i].ruleId = rules[r].id}

ErrorFindings == {i \in FindingIdx : results[i].status = "ERROR"}

\* one step of a running evaluate call
EvaluateStep ==
  \/ ResourceSkip
  \/ \E o \in AllOutcomes : ResourceCheck(o)
  \/ \E o \in AllOutcomes : TemplateCheck(o)
  \/ NextRule
  \/ Return

InTypes(r, x) == Includes(rules[r].resourceTypes, Resources[x].Type)

NoTypes(r) == Len(rules[r].resourceTypes) = 0

TemplateScoped(r) == NoTypes(r) \/ Includes(rules[r].resourceTypes, TemplateType)

Invoked(r, c) == \E k \in CallIdx : calls[k].rule = r /\ calls[k].ctx = c

\* C2: fault isolation.  When exactly one invocation threw, for rule r and
\* resource x, the returned list holds exactly one ERROR finding, which names
\* r and x, and every other pair is evaluated and reported as if that
\* invocation had returned Inapplicable: each resource the rule applies to
\* and each template-level check is invoked, and each result is reported.
C2_FaultIsolation ==
  pc = "done" =>
    \A k \in CallIdx :
      ( /\ calls[k].out = Throws
        /\ calls[k].ctx > 0
        /\ \A m \in CallIdx \ {k} : ~Faults(calls[m].out) )
      =>
      /\ Cardinality(ErrorFindings) = 1
      /\ \A i \in ErrorFindings :
           /\ results[i].ruleId = rules[calls[k].rule].id
           /\ results[i].resourceName = Resources[calls[k].ctx].name
      /\ \A r \in RuleIdx :
           /\ \A x \in 1..Len(Resources) :
                (NoTypes(r) \/ InTypes(r, x)) => Invoked(r, x)
           /\ TemplateScoped(r) => Invoked(r, 0)
      /\ Len(results) = 1 + Cardinality({m \in CallIdx : calls[m].out.kind = "result"})

\* C3: a rule scoped to resource types only (no template-level check) whose
\* predicate throws on every invocation, and k resources of the template
\* matching its types: the list
\* holds exactly k findings of the rule, all ERROR, one for each matching
\* resource, carrying that resource's logical id.
C3_OneErrorPerFault ==
  pc = "done" =>
    \A r \in RuleIdx :
      ( /\ ~TemplateScoped(r)
        /\ CallsOf(r) # {}
        /\ \A k \in CallsOf(r) : calls[k].out = Throws )
      =>
      LET matching == {x \in 1..Len(Resources) : InTypes(r, x)} IN
      /\ Cardinality(FindingsOf(r)) = Cardinality(matching)
      /\ \A i \in FindingsOf(r) : results[i].status = "ERROR"
      /\ \A x \in matching :
           \E i \in FindingsOf(r) : results[i].resourceName = Resources[x].name

\* C4: applicability filter.  For every rule with non-empty resourceTypes
\* and every resource of the template, a finished evaluate call has invoked
\* the rule's predicate on the resource if and only if the resource's
\* declared Type is one of the rule's resourceTypes.
C4_ApplicabilityFilter ==
  pc = "done" =>
    \A r \in RuleIdx :
      ~NoTypes(r) =>
        \A x \in 1..Len(Resources) : Invoked(r, x) <=> InTypes(r, x)

\* C5: for every rule with empty resourceTypes the returned list holds at
\* most one finding of the rule whose resourceName is 'Template', the value
\* template-level findings carry.
C5_TemplateAtMostOnce ==
  pc = "done" =>
    \A r \in RuleIdx :
      NoTypes(r) =>
        Cardinality({i \in FindingsOf(r) : results[i].resourceName = "Template"}) <= 1

\* the findings that name the rule and the context of invocation k: for a
\* resource its logical id and declared type, for the template as a whole
\* 'Template' and the template pseudo-type
FindingsFor(k) ==
  {i \in FindingsOf(calls[k].rule) :
     IF calls[k].ctx = 0
       THEN /\ results[i].resourceName = "Template"
            /\ results[i].resourceType = TemplateType
       ELSE /\ results[i].resourceName = Resources[calls[k].ctx].name
            /\ results[i].resourceType = Resources[calls[k].ctx].Type}

\* C6: Inapplicable suppresses output.  An invocation that returned null
\* leaves no finding of any status for its rule and context, the list holds
\* one finding for each invocation that did not return null and no others,
\* and a rule all of whose invocations returned null has no finding at all.
C6_InapplicableSuppresses ==
  /\ \A k \in CallIdx :
       calls[k].out = Null => calls[k].at = 0 /\ FindingsFor(k) = {}
  /\ Len(results) = Cardinality({k \in CallIdx : calls[k].out # Null})
  /\ \A r \in RuleIdx :
       (\A k \in CallsOf(r) : calls[k].out = Null) => FindingsOf(r) = {}

\* a rule was invoked on two resources and on the template as a whole,
\* returned null each time, and evaluate returned no finding of it while
\* another rule did get one
C6_Witness ==
  /\ pc = "done"
  /\ \E r \in RuleIdx :
       /\ Cardinality(CallsOf(r)) = 3
       /\ \A k \in CallsOf(r) : calls[k].out = Null
       /\ FindingsOf(r) = {}
  /\ results # <<>>

\* C7: template-scoped pass.  A finished evaluate call has invoked the
\* predicate of a rule with the template-level context (resourceName null,
\* resourceType 'AWS::CloudFormation::Template', empty properties) exactly
\* once if the rule's resourceTypes is empty or contains the template
\* pseudo-type and never otherwise; with no resources and one such rule
\* whose predicate passes, the result is one PASSED template-level finding.
C7_TemplateScopedPass ==
  pc = "done" =>
    /\ \A r \in RuleIdx :
         LET templateCalls ==
               {k \in CallsOf(r) : calls[k].context = TemplateContext}
         IN  Cardinality(templateCalls) = IF TemplateScoped(r) THEN 1 ELSE 0
    /\ ( /\ Len(Resources) = 0
         /\ Len(rules) = 1
         /\ TemplateScoped(1)
         /\ \A k \in CallIdx : calls[k].out.kind = "result" /\ calls[k].out.passed )
       =>
       /\ Len(results) = 1
       /\ results[1].status = "PASSED"
       /\ results[1].resourceName = "Template"

\* position in the registry of the rule a finding names
RulePos(i) == CHOOSE r \in RuleIdx : rules[r].id = results[i].ruleId

\* position of what a PASSED or FAILED finding names: the index of its
\* resource in the template, or past all resources for the template-level
\* finding
ContextPos(i) ==
  IF results[i].resourceName = "Template" /\ results[i].resourceType = TemplateType
    THEN Len(Resources) + 1
    ELSE CHOOSE x \in 1..Len(Resources) : Resources[x].name = results[i].resourceName

\* C8: finding order.  The list is ordered by the position of the rules in
\* the registry, findings of different rules never interleave, and the
\* PASSED and FAILED findings of one rule follow the template's resource
\* order with the template-level finding after all resource findings.
C8_FindingOrder ==
  \A i, j \in FindingIdx :
    i < j =>
      /\ RulePos(i) <= RulePos(j)
      /\ ( /\ RulePos(i) = RulePos(j)
           /\ results[i].status # "ERROR"
           /\ results[j].status # "ERROR" )
         => ContextPos(i) < ContextPos(j)

\* evaluate has returned findings of two rules, one of them with findings
\* for two resources followed by its template-level finding
C8_Witness ==
  /\ pc = "done"
  /\ \E i, j, m \in FindingIdx :
       /\ i < j /\ j < m
       /\ RulePos(i) = RulePos(j) /\ RulePos(j) = RulePos(m)
       /\ results[m].resourceName = "Template"
       /\ results[m].resourceType = TemplateType
       /\ results[i].status # "ERROR" /\ results[j].status # "ERROR"
  /\ \E i, j \in FindingIdx : RulePos(i) # RulePos(j)

\* C9: uniform finding record.  Every finding, whatever its status, carries
\* ruleId, ruleName, description, severity, category, remediation and
\* documentation of its rule as stored in the registry, and the filePath
\* argument of the call.
C9_UniformFindingRecord ==
  \A i \in FindingIdx :
    LET f == results[i]
        rule == rules[RulePos(i)]
    IN  /\ f.ruleId = rule.id
        /\ f.ruleName = rule.name
        /\ f.description = rule.description
        /\ f.severity = rule.severity
        /\ f.category = rule.category
        /\ f.remediation = rule.remediation
        /\ f.documentation = rule.documentation
        /\ f.filePath = filePath

\* C10: result-to-status mapping.  Every invocation that returned a Result
\* has exactly one finding for its rule and context, PASSED if passed is
\* true and FAILED if it is false; a rule has an ERROR finding only if one of
\* its invocations faulted; no finding has another status.
C10_ResultStatusMapping ==
  /\ \A k \in CallIdx :
       calls[k].out.kind = "result" =>
         /\ Cardinality(FindingsFor(k)) = 1
         /\ \A i \in FindingsFor(k) :
              results[i].status = IF calls[k].out.passed THEN "PASSED" ELSE "FAILED"
  /\ \A r \in RuleIdx :
       FindingsOf(r) \cap ErrorFindings # {} =>
         \E k \in CallsOf(r) : Faults(calls[k].out)
  /\ \A i \in FindingIdx : results[i].status \in {"PASSED", "FAILED", "ERROR"}

\* evaluate has returned a PASSED, a FAILED and an ERROR finding, for
\* invocations that passed, failed and threw
C10_Witness ==
  /\ pc = "done"
  /\ \E k, m, n \in CallIdx :
       /\ calls[k].out.kind = "result" /\ calls[k].out.passed
       /\ calls[m].out.kind = "result" /\ ~calls[m].out.passed
       /\ calls[n].out = Throws
  /\ \E i, j, e \in FindingIdx :
       /\ results[i].status = "PASSED"
       /\ results[j].status = "FAILED"
       /\ results[e].status = "ERROR"

\* the finding pushed for invocation k, when it returned a Result
FindingOf(k) == results[calls[k].at]

\* C11: default field population.  The finding of a Result whose message is
\* omitted or empty has message 'Check passed' when passed is true and
\* 'Check failed' when it is false, the finding of a Result whose details is
\* omitted has an empty details map, and a supplied non-empty message or
\* details is the finding's message or details.
C11_DefaultFields ==
  \A k \in CallIdx :
    (calls[k].out.kind = "result" /\ calls[k].at \in FindingIdx) =>
      /\ calls[k].out.message \in {Undefined, ""} =>
           FindingOf(k).message =
             IF calls[k].out.passed THEN "Check passed" ELSE "Check failed"
      /\ calls[k].out.message \notin {Undefined, ""} =>
           FindingOf(k).message = calls[k].out.message
      /\ calls[k].out.details = Undefined => FindingOf(k).details = "{}"
      /\ calls[k].out.details # Undefined =>
           FindingOf(k).details = calls[k].out.details

\* evaluate has returned the findings of a passing Result without message, a
\* failing Result with an empty message and a failing Result with its own
\* message and details
C11_Witness ==
  /\ pc = "done"
  /\ \E k, m, n \in CallIdx :
       /\ calls[k].out = Outcome("result", TRUE, Undefined, Undefined)
       /\ FindingOf(k).message = "Check passed" /\ FindingOf(k).details = "{}"
       /\ calls[m].out = Outcome("result", FALSE, "", Undefined)
       /\ FindingOf(m).message = "Check failed"
       /\ calls[n].out = Outcome("result", FALSE, "Specific failure reason", "details")
       /\ FindingOf(n).message = "Specific failure reason"
       /\ FindingOf(n).details = "details"

\* a step that is one registerRule call, with arg' the descriptor it was given
RegisterStep == pc = "idle" /\ pc' = "idle" /\ arg' # NoDescriptor

\* the descriptor lacks an id or lacks an evaluate function
Lacks(d) == d.id = Undefined \/ d.evaluate = Undefined

\* C13: registration validation.  A registerRule call whose descriptor lacks
\* an id or an evaluate function fails with an error and leaves the registry
\* exactly as it was; a call whose descriptor has both does not fail and the
\* registry then holds a rule with the descriptor's id.
C13_RegistrationValidation ==
  [][RegisterStep =>
       /\ Lacks(arg') => thrown' /\ rules' = rules
       /\ ~Lacks(arg') => ~thrown' /\ HasRule(rules', arg'.id)]_vars

\* a registerRule call with a descriptor without evaluate has just failed on
\* a registry that holds a rule
C13_Witness ==
  /\ pc = "idle" /\ thrown
  /\ arg = NoEvaluateDescriptor
  /\ Len(rules) >= 1

\* getRules(): the stored rules in the iteration order of the map
GetRules == rules

\* the ids of a list of rules
Ids(rs) == [i \in 1..Len(rs) |-> rs[i].id]

\* C15 as stated: registration order also when an id is registered more than
\* once.  The rule that a successful registerRule call has just registered is
\* registered later than every other rule, so getRules returns it last.
C15_LatestIsLast ==
  [][(RegisterStep /\ ~thrown') =>
       GetRules'[Len(GetRules')].id = arg'.id]_vars

\* C15 amended: order of first registration.  getRules returns the rules in
\* the order in which their ids were first registered, a later registration
\* of an id keeps the position of the first one, and evaluate visits the
\* rules in the order of getRules.
C15_FirstRegistrationOrder ==
  /\ Ids(GetRules) = firstReg
  /\ \A k, m \in CallIdx : k < m => calls[k].rule <= calls[m].rule
  /\ \A k \in CallIdx : calls[k].rule <= ri

\* the id registered first has just been registered again, after another id
C15_Witness ==
  /\ pc = "idle" /\ ~thrown
  /\ Len(GetRules) = 2
  /\ arg.id = GetRules[1].id

\* the list of one evaluate call only grows at its end
ResultsGrow ==
  /\ Len(results') >= Len(results)
  /\ SubSeq(results', 1, Len(results)) = results

\* C23: no retries.  Within one evaluate call a rule's predicate is invoked
\* at most once for each resource and at most once for the template-level
\* context, an invocation that faulted is not invoked again, and a step of
\* the call never replaces or removes a finding, so an ERROR finding stays.
C23_NoRetries ==
  [][/\ \A k, m \in 1..Len(calls') :
          (calls'[k].rule = calls'[m].rule /\ calls'[k].ctx = calls'[m].ctx) => k = m
     /\ EvaluateStep => ResultsGrow]_vars

\* a rule faulted on the first of two resources, and the call went on to
\* findings of another rule and returned with the ERROR finding in place
C23_Witness ==
  /\ pc = "done"
  /\ \E k \in CallIdx :
       /\ Faults(calls[k].out) /\ calls[k].ctx = 1 /\ Len(Resources) = 2
       /\ calls[k].at \in FindingIdx
       /\ results[calls[k].at].status = "ERROR"
       /\ calls[k].at < Len(results)

\* C24: missing resource collection.  For a template without a Resources
\* section evaluate does what it does for an empty Resources: no predicate is
\* invoked on a resource, an ERROR finding comes only from a template-level
\* invocation that faulted, and every other finding is template-level.
C24_MissingResources ==
  /\ ResourcesOf(NoResourcesTemplate) = ResourcesOf([hasResources |-> TRUE, Resources |-> <<>>])
  /\ ~template.hasResources =>
       /\ \A k \in CallIdx : calls[k].ctx = 0 /\ calls[k].context = TemplateContext
       /\ \A i \in FindingIdx :
            IF results[i].status = "ERROR"
              THEN \E k \in CallIdx :
                     /\ Faults(calls[k].out) /\ calls[k].at = i
              ELSE results[i].resourceName = "Template"

\* evaluate has returned for a template without Resources and two rules, with
\* a template-level finding
C24_Witness ==
  /\ pc = "done"
  /\ ~template.hasResources
  /\ Len(rules) = 2
  /\ \E i \in FindingIdx : results[i].resourceName = "Template"

\* C26: one ERROR finding per rule.  Each rule has at most one ERROR finding;
\* after an invocation of a rule has faulted, no other invocation of that
\* rule follows, the findings of its earlier invocations are still in the
\* list, and the ERROR finding is the last finding of the rule.
C26_FaultEndsRule ==
  \A r \in RuleIdx :
    /\ Cardinality(FindingsOf(r) \cap ErrorFindings) <= 1
    /\ \A k \in CallsOf(r) :
         Faults(calls[k].out) =>
           /\ \A m \in CallsOf(r) : m <= k
           /\ calls[k].at \in FindingsOf(r) \cap ErrorFindings
           /\ \A i \in FindingsOf(r) : i <= calls[k].at
           /\ \A m \in CallsOf(r) :
                (m < k /\ calls[m].out # Null) =>
                  /\ calls[m].at \in FindingsOf(r)
                  /\ calls[m].at < calls[k].at
                  /\ results[calls[m].at].status \in {"PASSED", "FAILED"}

\* a rule had a finding for its first resource and faulted on the second; it
\* applies to the template as a whole too, and evaluate has returned
C26_Witness ==
  /\ pc = "done"
  /\ \E r \in RuleIdx :
       /\ TemplateScoped(r)
       /\ \E k, m \in CallsOf(r) :
            /\ calls[m].ctx = 1 /\ calls[m].out.kind = "result"
            /\ calls[k].ctx = 2 /\ Faults(calls[k].out)
       /\ Cardinality(FindingsOf(r)) = 2

\* C27: the template-level guard never suppresses.  No finding in the list
\* has resourceName null, so every template-level invocation that returned a
\* result has its finding, with resourceName 'Template', appended.
C27_GuardNeverSuppresses ==
  /\ \A i \in FindingIdx : results[i].resourceName # "null"
  /\ \A r \in RuleIdx : ~TemplateFindingExists(results, rules[r])
  /\ \A k \in CallIdx :
       (calls[k].ctx = 0 /\ calls[k].out.kind = "result") =>
         /\ calls[k].at \in FindingIdx
         /\ results[calls[k].at].resourceName = "Template"
         /\ results[calls[k].at].resourceType = TemplateType
         /\ results[calls[k].at].ruleId = rules[calls[k].rule].id

\* a rule has a finding for a resource whose logical id is Template and a
\* template-level finding as well
C27_Witness ==
  /\ pc = "done"
  /\ \E k, m \in CallIdx :
       /\ calls[k].rule = calls[m].rule
       /\ calls[m].ctx > 0 /\ calls[m].out.kind = "result"
       /\ Resources[calls[m].ctx].name = "Template"
       /\ calls[k].ctx = 0 /\ calls[k].out.kind = "result"
       /\ calls[k].at \in FindingIdx /\ calls[m].at \in FindingIdx
       /\ calls[m].at < calls[k].at

\* C28: only null is Inapplicable.  A predicate that returns undefined is a
\* fault: the invocation has an ERROR finding of its rule, no finding of
\* another status, and no later context of the rule is evaluated.
C28_UndefinedIsFault ==
  \A k \in CallIdx :
    calls[k].out = ReturnsUndefined =>
      /\ calls[k].at \in FindingIdx
      /\ results[calls[k].at].status = "ERROR"
      /\ results[calls[k].at].ruleId = rules[calls[k].rule].id
      /\ \A m \in CallsOf(calls[k].rule) : m <= k

\* a predicate returned undefined on the first of two resources its rule
\* applies to, and evaluate has returned
C28_Witness ==
  /\ pc = "done"
  /\ Len(Resources) = 2
  /\ \E k \in CallIdx :
       /\ calls[k].out = ReturnsUndefined /\ calls[k].ctx = 1
       /\ Applies(rules[calls[k].rule], Resources[2].Type)
       /\ results[calls[k].at].status = "ERROR"

(***************************************************************************)
(* Two evaluate calls in a row on the same template, file path and         *)
(* registry, with deterministic predicates: an invocation of the second    *)
(* call settles as the same invocation of the first call did.              *)
(***************************************************************************)

\* evaluate(template, filePath) called again when the first call has returned
EvaluateAgain ==
  /\ pc = "done"
  /\ ~prev.done
  /\ prev' = [done |-> TRUE, results |-> results, calls |-> calls, rules |-> rules]
  /\ pc' = "running"
  /\ thrown' = FALSE
  /\ results' = NewResults(results)
  /\ ri' = 1
  /\ xi' = 1
  /\ calls' = <<>>
  /\ UNCHANGED <<rules, template, filePath, arg, firstReg, scanner>>
  /\ UNCHANGED <<pending, other, ret, dir>>

\* a predicate that returns what RULES.md documents, or throws
UsualOutcomes == {o \in AllOutcomes : o.kind # "undefined"}

\* a deterministic predicate: invoked by rule ri in context c, it settles as
\* it did in the call before
Deterministic(o, c) ==
  prev.done =>
    \A k \in 1..Len(prev.calls) :
      (prev.calls[k].rule = ri /\ prev.calls[k].ctx = c) => prev.calls[k].out = o

DetNext ==
  \/ \E d \in Descriptors : RegisterRuleThrows(d)
  \/ \E d \in Descriptors : RegisterRule(d)
  \/ \E t \in Templates, fp \in FilePaths : EvaluateStart(t, fp)
  \/ EvaluateAgain
  \/ ResourceSkip
  \/ \E o \in UsualOutcomes : Deterministic(o, xi) /\ ResourceCheck(o)
  \/ \E o \in UsualOutcomes : Deterministic(o, 0) /\ TemplateCheck(o)
  \/ NextRule
  \/ Return

DetSpec == Init /\ [][DetNext]_vars

\* a step of an evaluate call, the first or the second
DetEvaluateStep == EvaluateStep \/ EvaluateAgain

\* C12: determinism and statelessness of evaluate.  With deterministic
\* predicates the second of two evaluate calls on the same template, file
\* path and registry returns a list identical in length, order and content
\* to the list of the first, and no step of an evaluate call changes the
\* registered rules or their order.
C12_Deterministic ==
  [][/\ (prev'.done /\ pc' = "done") =>
          /\ Len(results') = Len(prev'.results)
          /\ results' = prev'.results
          /\ rules' = prev'.rules
     /\ DetEvaluateStep => rules' = rules]_vars

\* the second call has returned after the first one returned a PASSED, a
\* FAILED and an ERROR finding
C12_Witness ==
  /\ prev.done /\ pc = "done"
  /\ Len(prev.results) >= 3
  /\ \E i, j, e \in 1..Len(prev.results) :
       /\ prev.results[i].status = "PASSED"
       /\ prev.results[j].status = "FAILED"
       /\ prev.results[e].status = "ERROR"

(***************************************************************************)
(* The Scanner: constructed with one of the option objects, initialized,   *)
(* then scanning files one after the other.                                *)
(***************************************************************************)

\* the files a scan is asked for: a template with a bucket, a template
\* without Resources, a file that does not parse, a path that does not exist
Files ==
  { [path |-> "bucket.yaml", exists |-> TRUE, parses |-> TRUE,
     template |-> [hasResources |-> TRUE, Resources |-> <<ResourceCatalog[1]>>]],
    [path |-> "stack.yaml", exists |-> TRUE, parses |-> TRUE,
     template |-> NoResourcesTemplate],
    [path |-> "broken.yaml", exists |-> TRUE, parses |-> FALSE,
     template |-> NoResourcesTemplate],
    [path |-> "missing.yaml", exists |-> FALSE, parses |-> FALSE,
     template |-> NoResourcesTemplate] }

\* scanFile calls that went past the existence test
Scans == stats.filesScanned + stats.errors

\* initialize(): registers the loaded rules that shouldIncludeRule accepts
Initialize ==
  /\ spc = "new"
  /\ pc = "idle"
  /\ rules' = RegisterLoaded(rules, options, 1)
  /\ spc' = "ready"
  /\ UNCHANGED <<pc, thrown, template, filePath, results, ri, xi, calls>>
  /\ UNCHANGED <<arg, firstReg, prev, options, scanned, stats>>
  /\ UNCHANGED <<pending, other, ret, dir>>

\* scanFile(filePath) of a path that does not exist: throws
ScanFileThrows(f) ==
  /\ spc = "ready"
  /\ pc = "idle"
  /\ ~f.exists
  /\ thrown' = TRUE
  /\ UNCHANGED <<rules, pc, template, filePath, results, ri, xi, calls>>
  /\ UNCHANGED <<outside, pending>>

\* scanFile(filePath) of a file that parseTemplate gives up on
ScanFileUnparsed(f) ==
  /\ spc = "ready"
  /\ pc = "idle"
  /\ Scans < MaxScans
  /\ f.exists /\ ~f.parses
  /\ stats' = [stats EXCEPT !.errors = @ + 1]
  /\ thrown' = FALSE
  /\ filePath' = f.path
  /\ results' = <<>>
  /\ ret' = [file |-> f.path, error |-> "Failed to parse template", results |-> <<>>]
  /\ UNCHANGED <<rules, pc, template, ri, xi, calls>>
  /\ UNCHANGED <<arg, firstReg, prev, options, spc, scanned>>
  /\ UNCHANGED <<pending, other, dir>>

\* scanFile(filePath) of a template: counts the file and calls evaluate
ScanFile(f) ==
  /\ spc = "ready"
  /\ pc = "idle"
  /\ Scans < MaxScans
  /\ f.exists /\ f.parses
  /\ stats' = [stats EXCEPT !.filesScanned = @ + 1]
  /\ pc' = "running"
  /\ thrown' = FALSE
  /\ template' = f.template
  /\ filePath' = f.path
  /\ results' = NewResults(results)
  /\ ri' = 1
  /\ xi' = 1
  /\ calls' = <<>>
  /\ ret' = NoReturn
  /\ UNCHANGED <<rules, arg, firstReg, prev, options, spc, scanned>>
  /\ UNCHANGED <<pending, other, dir>>

\* processResults that counts an ERROR finding as an error of the scan
ProcessResults_CountsErrors(st, res) ==
  [st EXCEPT !.passed = @ + CountStatus(res, "PASSED"),
             !.failed = @ + CountStatus(res, "FAILED"),
             !.skipped = @ + CountStatus(res, "SKIPPED"),
             !.errors = @ + CountStatus(res, "ERROR")]

\* processResults(results)
ProcessResults(st, res) ==
  [st EXCEPT !.passed = @ + CountStatus(res, "PASSED"),
             !.failed = @ + CountStatus(res, "FAILED"),
             !.skipped = @ + CountStatus(res, "SKIPPED")]

\* ScanFinish that keeps only the findings of the last file
ScanFinish_Replaces ==
  /\ spc = "ready"
  /\ pc = "done"
  /\ scanned' = results
  /\ stats' = ProcessResults(stats, results)
  /\ pc' = "idle"
  /\ ri' = 1
  /\ xi' = 1
  /\ calls' = <<>>
  /\ ret' = [file |-> filePath, error |-> Undefined, results |-> results]
  /\ UNCHANGED <<rules, thrown, template, filePath, results>>
  /\ UNCHANGED <<arg, firstReg, prev, options, spc>>
  /\ UNCHANGED <<pending, other, dir>>

\* scanFile after evaluate has returned: processResults(fileResults) and
\* return {file, results}
ScanFinish ==
  /\ spc = "ready"
  /\ pc = "done"
  /\ scanned' = scanned \o results
  /\ stats' = ProcessResults(stats, results)
  /\ pc' = "idle"
  /\ ri' = 1
  /\ xi' = 1
  /\ calls' = <<>>
  /\ ret' = [file |-> filePath, error |-> Undefined, results |-> results]
  /\ UNCHANGED <<rules, thrown, template, filePath, results>>
  /\ UNCHANGED <<arg, firstReg, prev, options, spc>>
  /\ UNCHANGED <<pending, other, dir>>

\* the keys of severityCounts: the five preset ones and the severity of every
\* FAILED result
SeverityKeys(res) ==
  {SeverityOrder[i] : i \in 1..Len(SeverityOrder)}
    \cup {res[i].severity : i \in {j \in 1..Len(res) : res[j].status = "FAILED"}}

\* the severityCounts object of getSummary()
SeverityCounts(res) ==
  [k \in SeverityKeys(res) |->
     Cardinality({i \in 1..Len(res) :
                    res[i].status = "FAILED" /\ res[i].severity = k})]

\* the sum of the values of an object: the number of pairs <<key, n>> with
\* n from 1 to the value at the key
SumValues(f) ==
  Cardinality(UNION {{<<k, n>> : n \in 1..f[k]} : k \in DOMAIN f})

\* getSummary()
GetSummary(st, res) ==
  [stats |-> st,
   severityCounts |-> SeverityCounts(res),
   totalChecks |-> st.passed + st.failed + st.skipped]

ScannerInit == EngineInit /\ \E o \in OptionInputs : Constructor(o)

ScannerNext ==
  \/ Initialize
  \/ \E f \in Files : ScanFileThrows(f)
  \/ \E f \in Files : ScanFileUnparsed(f)
  \/ \E f \in Files : ScanFile(f)
  \/ ResourceSkip
  \/ \E o \in UsualOutcomes : ResourceCheck(o)
  \/ \E o \in UsualOutcomes : TemplateCheck(o)
  \/ NextRule
  \/ Return
  \/ ScanFinish

ScannerSpec == ScannerInit /\ [][ScannerNext]_vars

(***************************************************************************)
(* Asynchronous predicates and two evaluate calls in flight.  evaluate     *)
(* awaits every predicate invocation: the invocation and its settlement    *)
(* are two steps, and while one call waits the other call may run up to    *)
(* its next await.  The engine is the one of an initialized Scanner, the   *)
(* templates are those of the files.                                       *)
(***************************************************************************)

\* the context the running call is about to give to the predicate, if any
CanInvoke ==
  /\ InRule
  /\ IF xi <= Len(ResourcesOf(template))
       THEN Applies(rules[ri], ResourcesOf(template)[xi].Type)
       ELSE TemplateLevel(rules[ri])

Ctx == IF xi <= Len(ResourcesOf(template)) THEN xi ELSE 0

\* Invoke that does not wait for the invocation before
Invoke_Eager ==
  /\ CanInvoke
  /\ pending' = Append(pending, [rule |-> ri, ctx |-> Ctx])
  /\ UNCHANGED <<rules, pc, thrown, template, filePath, results, ri, xi, calls>>
  /\ UNCHANGED outside

\* rule.evaluate(context) returns a promise and evaluate waits for it
Invoke ==
  /\ CanInvoke
  /\ pending = <<>>
  /\ pending' = Append(pending, [rule |-> ri, ctx |-> Ctx])
  /\ UNCHANGED <<rules, pc, thrown, template, filePath, results, ri, xi, calls>>
  /\ UNCHANGED outside

\* rule.evaluate(context) throws before it returns anything
InvokeThrows ==
  /\ pending = <<>>
  /\ ResourceCheck(Throws) \/ TemplateCheck(Throws)

\* the awaited invocation settles and evaluate goes on
Settle(o) ==
  /\ pending # <<>>
  /\ ResourceCheck(o) \/ TemplateCheck(o)

\* the local state of the running evaluate call
CurrentFrame ==
  [pc |-> pc, thrown |-> thrown, template |-> template, filePath |-> filePath,
   results |-> results, ri |-> ri, xi |-> xi, calls |-> calls,
   pending |-> pending]

\* the local state of an evaluate call that has just been made
StartFrame(f) ==
  [pc |-> "running", thrown |-> FALSE, template |-> f.template,
   filePath |-> f.path, results |-> NewResults(results), ri |-> 1, xi |-> 1,
   calls |-> <<>>, pending |-> <<>>]

\* evaluate is called for the templates of two files; the second call starts
\* when the first one has reached an await or has returned
ConcStart(f1, f2) ==
  /\ spc = "ready"
  /\ pc = "idle"
  /\ other.pc = "none"
  /\ f1.exists /\ f1.parses /\ f2.exists /\ f2.parses
  /\ pc' = "running"
  /\ thrown' = FALSE
  /\ template' = f1.template
  /\ filePath' = f1.path
  /\ results' = NewResults(results)
  /\ ri' = 1
  /\ xi' = 1
  /\ calls' = <<>>
  /\ pending' = <<>>
  /\ other' = StartFrame(f2)
  /\ UNCHANGED <<rules, arg, firstReg, prev, scanner, ret, dir>>

\* Switch with one results list for both calls
Switch_SharedResults ==
  /\ other.pc = "running"
  /\ pc = "done" \/ (pc = "running" /\ pending # <<>>)
  /\ other' = CurrentFrame
  /\ pc' = other.pc
  /\ thrown' = other.thrown
  /\ template' = other.template
  /\ filePath' = other.filePath
  /\ results' = results
  /\ ri' = other.ri
  /\ xi' = other.xi
  /\ calls' = other.calls
  /\ pending' = other.pending
  /\ UNCHANGED <<rules, arg, firstReg, prev, scanner, ret, dir>>

\* the running call waits at an await, or has returned, and the other call
\* runs: each call has its own locals
Switch ==
  /\ other.pc = "running"
  /\ pc = "done" \/ (pc = "running" /\ pending # <<>>)
  /\ other' = CurrentFrame
  /\ pc' = other.pc
  /\ thrown' = other.thrown
  /\ template' = other.template
  /\ filePath' = other.filePath
  /\ results' = other.results
  /\ ri' = other.ri
  /\ xi' = other.xi
  /\ calls' = other.calls
  /\ pending' = other.pending
  /\ UNCHANGED <<rules, arg, firstReg, prev, scanner, ret, dir>>

AsyncNext ==
  \/ Initialize
  \/ \E f1, f2 \in Files : ConcStart(f1, f2)
  \/ Invoke
  \/ InvokeThrows
  \/ \E o \in UsualOutcomes : Settle(o)
  \/ ResourceSkip
  \/ NextRule
  \/ Return
  \/ Switch

AsyncSpec == ScannerInit /\ [][AsyncNext]_vars

(***************************************************************************)
(* The registry alone: registerRule calls with every descriptor, and with  *)
(* a second descriptor for each id that differs from the first in the      *)
(* fields it supplies.                                                     *)
(***************************************************************************)

\* a later descriptor for the id of d: another name and severity
Override(d) == [d EXCEPT !.name = "Overridden", !.severity = "LOW"]

RegistryDescriptors == Descriptors \cup {Override(d) : d \in ValidDescriptors}

RegistryNext ==
  \E d \in RegistryDescriptors :
    \/ RegisterRule(d)
    \/ RegisterRuleThrows(d)

RegistrySpec == Init /\ [][RegistryNext]_vars

\* getRule(id): the stored rule, or undefined (here the record whose fields
\* are all undefined)
GetRule(rs, id) ==
  IF HasRule(rs, id)
    THEN rs[CHOOSE i \in 1..Len(rs) : rs[i].id = id]
    ELSE NoDescriptor

\* the ids a descriptor can carry
RuleIds == {d.id : d \in ValidDescriptors}

\* C14: id uniqueness with overwrite.  The registry holds at most one rule
\* per id; a registerRule call with an id that is present replaces the stored
\* descriptor, getRule of the id returns what the most recent call stored and
\* the number of rules does not change; getRule of an id never registered
\* returns the not-found value.
C14_UniqueIdOverwrite ==
  [][/\ \A i, j \in 1..Len(rules') : rules'[i].id = rules'[j].id => i = j
     /\ (RegisterStep /\ ~thrown') =>
          /\ GetRule(rules', arg'.id) = StoredRule(arg')
          /\ HasRule(rules, arg'.id) => Len(rules') = Len(rules)
     /\ \A id \in RuleIds :
          ~Includes(firstReg', id) => GetRule(rules', id) = NoDescriptor]_vars

\* an id registered with one descriptor has just been registered with another
\* one, beside a second rule, and a third id was never registered
C14_Witness ==
  /\ pc = "idle" /\ ~thrown
  /\ arg = Override(S3Descriptor)
  /\ Len(rules) = 2
  /\ rules[1] = StoredRule(Override(S3Descriptor))
  /\ GetRule(rules, "CUSTOM_001") = NoDescriptor

ScannerFindings ==
  {results[i] : i \in 1..Len(results)} \cup {scanned[i] : i \in 1..Len(scanned)}

\* C17: skipRules.  After initialize no rule whose id is in options.skipRules
\* is registered, also when the id is in includeRules or the rule carries the
\* selected framework, and no finding of the scanner has such a ruleId.
C17_SkipRules ==
  spc = "ready" =>
    /\ \A i \in RuleIdx : ~Includes(options.skipRules, rules[i].id)
    /\ \A f \in ScannerFindings : ~Includes(options.skipRules, f.ruleId)

\* a scanner whose skipRules and includeRules both name CFN_S3_001 has
\* scanned the template with the bucket and has findings
C17_Witness ==
  /\ spc = "ready" /\ pc = "idle"
  /\ Includes(options.skipRules, "CFN_S3_001")
  /\ Includes(options.includeRules, "CFN_S3_001")
  /\ \E i \in 1..Len(scanned) : scanned[i].filePath = "bucket.yaml"

\* the loaded rules that includeRules names and skipRules does not
IncludedNotSkipped ==
  SelectSeq(LoadedRules,
            LAMBDA d : /\ Includes(options.includeRules, d.id)
                       /\ ~Includes(options.skipRules, d.id))

\* C18: includeRules.  When options.includeRules is not empty, the rules
\* registered by initialize are exactly the loaded rules whose id is in
\* includeRules and not in skipRules.
C18_IncludeRules ==
  (spc = "ready" /\ Len(options.includeRules) > 0) =>
    GetRules = [i \in 1..Len(IncludedNotSkipped) |-> StoredRule(IncludedNotSkipped[i])]

\* initialize has run with includeRules naming one of the three loaded rules
C18_Witness ==
  /\ spc = "ready"
  /\ options.includeRules = <<"CFN_S3_007">>
  /\ Ids(GetRules) = <<"CFN_S3_007">>

\* C19: framework filter.  When options.framework is not 'all', every rule
\* registered by initialize has that framework in its frameworks list,
\* whatever skipRules and includeRules are.
C19_FrameworkFilter ==
  (spc = "ready" /\ options.framework # "all") =>
    \A i \in RuleIdx : Includes(rules[i].frameworks, options.framework)

\* the place of a severity in INFO < LOW < MEDIUM < HIGH < CRITICAL
Level ==
  [sev \in {"INFO", "LOW", "MEDIUM", "HIGH", "CRITICAL"} |->
     CASE sev = "INFO" -> 0
       [] sev = "LOW" -> 1
       [] sev = "MEDIUM" -> 2
       [] sev = "HIGH" -> 3
       [] sev = "CRITICAL" -> 4]

\* C20: fail threshold.  shouldFail returns true if and only if the
\* accumulated results hold a FAILED finding whose severity is at or above
\* options.failOnSeverity in INFO < LOW < MEDIUM < HIGH < CRITICAL; PASSED
\* and ERROR findings never make it return true.
C20_FailThreshold ==
  ShouldFail(scanned, options.failOnSeverity) <=>
    \E i \in 1..Len(scanned) :
      /\ scanned[i].status = "FAILED"
      /\ Level[scanned[i].severity] >= Level[options.failOnSeverity]

\* shouldFail returns true for accumulated results with a FAILED finding at
\* the threshold, a FAILED finding below it and an ERROR finding above it
C20_Witness ==
  /\ pc = "idle"
  /\ options.failOnSeverity = "HIGH"
  /\ ShouldFail(scanned, options.failOnSeverity)
  /\ \E i, j, e \in 1..Len(scanned) :
       /\ scanned[i].status = "FAILED" /\ scanned[i].severity = "HIGH"
       /\ scanned[j].status = "FAILED" /\ scanned[j].severity = "LOW"
       /\ scanned[e].status = "ERROR" /\ scanned[e].severity = "CRITICAL"

\* the finding of one settled invocation, when it has one
SoloFinding(c, fp) ==
  IF Faults(c.out) THEN ErrorFinding(rules[c.rule], c.out, fp)
  ELSE IF c.ctx = 0
    THEN ResultFinding(rules[c.rule], c.out, "Template", TemplateType, fp)
    ELSE ResultFinding(rules[c.rule], c.out, c.context.resourceName,
                       c.context.resourceType, fp)

\* the list a call returns when it runs alone and its invocations settle as
\* the first n of cs did
RECURSIVE SoloResults(_, _, _)
SoloResults(cs, n, fp) ==
  IF n = 0 THEN <<>>
  ELSE IF cs[n].out = Null THEN SoloResults(cs, n - 1, fp)
  ELSE Append(SoloResults(cs, n - 1, fp), SoloFinding(cs[n], fp))

\* a call that has returned has gone through every rule as it does alone:
\* each rule faulted or was invoked in every context it applies to, once
SoloComplete(frame) ==
  LET res == ResourcesOf(frame.template)
      did(r, c) == Cardinality({k \in 1..Len(frame.calls) :
                                  frame.calls[k].rule = r /\ frame.calls[k].ctx = c})
  IN
  \A r \in RuleIdx :
    \/ \E k \in 1..Len(frame.calls) :
         frame.calls[k].rule = r /\ Faults(frame.calls[k].out)
    \/ /\ \A x \in 1..Len(res) :
            did(r, x) = IF Applies(rules[r], res[x].Type) THEN 1 ELSE 0
       /\ did(r, 0) = IF TemplateLevel(rules[r]) THEN 1 ELSE 0

\* the two calls in flight
Frames == {CurrentFrame, other}

\* C21: re-entrancy.  Two evaluate calls that run interleaved at their awaits
\* on the same engine each return the list they return when run alone: the
\* list of a call holds the findings of its own invocations, in their order,
\* and nothing of the other call.
C21_Reentrant ==
  \A frame \in Frames :
    /\ frame.results = SoloResults(frame.calls, Len(frame.calls), frame.filePath)
    /\ frame.pc = "done" => SoloComplete(frame) /\ ~frame.thrown

\* both calls are in flight on the template with the bucket: each has a
\* finding of the first rule, with different statuses, and each is waiting
\* for its next predicate
C21_Witness ==
  /\ pc = "running" /\ other.pc = "running"
  /\ pending # <<>> /\ other.pending # <<>>
  /\ filePath = "bucket.yaml" /\ other.filePath = "bucket.yaml"
  /\ Len(results) = 1 /\ Len(other.results) = 1
  /\ results[1].ruleId = other.results[1].ruleId
  /\ results[1].status = "PASSED" /\ other.results[1].status = "FAILED"

\* a step of the running call that ends an invocation with a throw or a
\* rejection
ThrowStep ==
  /\ other' = other
  /\ Len(calls') = Len(calls) + 1
  /\ calls'[Len(calls')].out = Throws

\* C22: sequential predicate execution.  A call has at most one invocation
\* pending; a predicate is invoked only when every earlier invocation of the
\* call has settled and its finding, if any, is in the list; and a rejection
\* of the awaited promise ends the rule with an ERROR finding exactly as a
\* throw at the invocation does.
C22_Sequential ==
  [][/\ Len(pending') <= 1 /\ Len(other'.pending) <= 1
     /\ pending' # <<>> =>
          /\ pending' = <<[rule |-> ri', ctx |-> Ctx']>>
          /\ \A k \in 1..Len(calls') :
                <<calls'[k].rule, calls'[k].ctx>> # <<ri', Ctx'>>
          /\ Len(results') = Cardinality({k \in 1..Len(calls') : calls'[k].out # Null})
     /\ ThrowStep =>
          /\ results' = Append(results, ErrorFinding(rules[ri], Throws, filePath))
          /\ ri' = ri + 1 /\ xi' = 1
          /\ pending' = <<>>
          /\ ~thrown' /\ pc' = "running"]_vars

\* the third predicate of a call is pending, after one invocation that
\* returned a result and one that was rejected while awaited
C22_Witness ==
  /\ pc = "running"
  /\ Len(pending) = 1
  /\ Len(calls) = 2
  /\ calls[1].out.kind = "result"
  /\ calls[2].out = Throws
  /\ Len(results) = 2

\* C25: scanFile accounting.  A scanFile call of a file that parses adds one
\* to stats.filesScanned when it starts, changes neither the statistics nor
\* the accumulated results while the engine runs, and when the engine has
\* returned appends exactly its findings, in order, after the earlier ones and
\* returns them; a call of a file that does not parse adds one to
\* stats.errors, returns an entry with an error and no results, and leaves
\* filesScanned and the accumulated results as they were.
C25_ScanFileAccounting ==
  [][/\ (pc = "idle" /\ pc' = "running") =>
          /\ stats' = [stats EXCEPT !.filesScanned = @ + 1]
          /\ scanned' = scanned
     /\ pc = "running" => UNCHANGED <<stats, scanned>>
     /\ (pc = "done" /\ pc' = "idle") =>
          /\ scanned' = scanned \o results
          /\ stats'.filesScanned = stats.filesScanned
          /\ stats'.errors = stats.errors
          /\ ret' = [file |-> filePath, error |-> Undefined, results |-> results]
     /\ (spc = "ready" /\ pc = "idle" /\ pc' = "idle" /\ ~thrown') =>
          /\ stats' = [stats EXCEPT !.errors = @ + 1]
          /\ scanned' = scanned
          /\ ret' = [file |-> filePath', error |-> "Failed to parse template",
                     results |-> <<>>]]_vars

\* a template was scanned and gave findings, then a file that does not parse
\* was scanned: the findings are still there
C25_Witness ==
  /\ pc = "idle"
  /\ stats.filesScanned = 1 /\ stats.errors = 1
  /\ ret.error = "Failed to parse template" /\ ret.results = <<>>
  /\ Len(scanned) = 2

\* the statistics agree with the accumulated results
StatsConsistent ==
  LET summary == GetSummary(stats, scanned)
      counts  == summary.severityCounts
      errors  == CountStatus(scanned, "ERROR")
  IN
  /\ stats.passed = CountStatus(scanned, "PASSED")
  /\ stats.failed = CountStatus(scanned, "FAILED")
  /\ stats.failed = SumValues(counts)
  /\ stats.skipped = 0
  /\ summary.totalChecks = stats.passed + stats.failed + stats.skipped
  /\ summary.totalChecks < Len(scanned) <=> errors > 0
  /\ Len(scanned) = summary.totalChecks + errors

\* C29: the statistics stay consistent with the accumulated results.  At the
\* start and after every step that changes either, stats.passed and
\* stats.failed are the numbers of PASSED and FAILED findings accumulated,
\* stats.failed is the sum of the severityCounts
\* of getSummary, stats.skipped is 0, totalChecks is their sum and is smaller
\* than the number of findings exactly when there is an ERROR finding; and a
\* step that accumulates findings leaves stats.errors alone.
C29_StatsConsistent ==
  /\ StatsConsistent
  /\ [][/\ UNCHANGED <<stats, scanned>> \/ StatsConsistent'
        /\ scanned' # scanned => stats'.errors = stats.errors]_vars

\* two files were scanned and the accumulated findings hold a PASSED, a
\* FAILED and an ERROR one while stats.errors is 0
C29_Witness ==
  /\ pc = "idle"
  /\ stats.filesScanned = 2 /\ stats.errors = 0
  /\ stats.passed >= 1 /\ stats.failed >= 1
  /\ CountStatus(scanned, "ERROR") >= 1
  /\ GetSummary(stats, scanned).totalChecks < Len(scanned)

(***************************************************************************)
(* scanDirectory: the files that glob lists are tested with                *)
(* isCloudFormationTemplate and handed to scanFile one after the other.    *)
(***************************************************************************)

ServerlessTransform == "AWS::Serverless-2016-10-31"

\* the files of a directory as they are when glob lists them: a template with
\* a bucket, a serverless template without Resources, a YAML file that is no
\* template, a file that does not parse
DirCatalog ==
  << [path |-> "bucket.yaml", exists |-> TRUE, parses |-> TRUE,
      formatVersion |-> "2010-09-09", transform |-> Undefined,
      template |-> [hasResources |-> TRUE, Resources |-> <<ResourceCatalog[1]>>]],
     [path |-> "stack.yaml", exists |-> TRUE, parses |-> TRUE,
      formatVersion |-> Undefined, transform |-> ServerlessTransform,
      template |-> NoResourcesTemplate],
     [path |-> "config.yaml", exists |-> TRUE, parses |-> TRUE,
      formatVersion |-> Undefined, transform |-> Undefined,
      template |-> NoResourcesTemplate],
     [path |-> "broken.yaml", exists |-> TRUE, parses |-> FALSE,
      formatVersion |-> Undefined, transform |-> Undefined,
      template |-> NoResourcesTemplate] >>

\* what glob returns over the patterns: some of the files, each once, in
\* some order
DirListings ==
  {l \in UNION {[1..k -> DOMAIN DirCatalog] : k \in 0..MaxScans} :
     \A i, j \in DOMAIN l : i # j => l[i] # l[j]}

\* isCloudFormationTemplate(file)
IsCloudFormationTemplate(f) ==
  /\ f.exists
  /\ f.parses
  /\ \/ ~Falsy(f.formatVersion)
     \/ f.template.hasResources
     \/ f.transform = ServerlessTransform

\* a listed file when scanFile reads it again: as it was, removed since, or
\* rewritten into something that does not parse
Later(f) ==
  {f, [f EXCEPT !.exists = FALSE], [f EXCEPT !.parses = FALSE]}

\* "File not found: <path>", the message of the error scanFile throws
NotFoundMessage(file) == "File not found: " \o file

\* scanDirectory(dirPath), called once on the initialized scanner: glob has
\* listed the files
DirStart(l) ==
  /\ spc = "ready"
  /\ pc = "idle"
  /\ dir.phase = "none"
  /\ dir' = [phase |-> "loop", listing |-> l, queue |-> l, file |-> Undefined,
             entries |-> <<>>]
  /\ thrown' = FALSE
  /\ ret' = NoReturn
  /\ UNCHANGED <<rules, pc, template, filePath, results, ri, xi, calls>>
  /\ UNCHANGED <<arg, firstReg, prev, scanner, pending, other>>

\* the next file is no CloudFormation template: nothing is scanned
DirSkip ==
  /\ dir.phase = "loop"
  /\ dir.queue # <<>>
  /\ ~IsCloudFormationTemplate(DirCatalog[Head(dir.queue)])
  /\ dir' = [dir EXCEPT !.queue = Tail(@)]
  /\ UNCHANGED <<rules, pc, thrown, template, filePath, results, ri, xi, calls>>
  /\ UNCHANGED <<arg, firstReg, prev, scanner, pending, other, ret>>

\* the next file is a CloudFormation template: scanFile is about to be called
DirPick ==
  /\ dir.phase = "loop"
  /\ dir.queue # <<>>
  /\ IsCloudFormationTemplate(DirCatalog[Head(dir.queue)])
  /\ dir' = [dir EXCEPT !.phase = "call",
                        !.file = DirCatalog[Head(dir.queue)].path,
                        !.queue = Tail(@)]
  /\ ret' = NoReturn
  /\ UNCHANGED <<rules, pc, thrown, template, filePath, results, ri, xi, calls>>
  /\ UNCHANGED <<arg, firstReg, prev, scanner, pending, other>>

\* the file under scan as glob listed it
DirFile == CHOOSE f \in {DirCatalog[i] : i \in DOMAIN DirCatalog} : f.path = dir.file

\* whether scanFile has been called for the picked file
Called == pc # "idle" \/ thrown \/ ret # NoReturn

\* await this.scanFile(file)
DirScanFile ==
  /\ dir.phase = "call"
  /\ ~Called
  /\ \E f \in Later(DirFile) :
       \/ ScanFileThrows(f)
       \/ ScanFileUnparsed(f)
       \/ ScanFile(f)

\* results.push(result) with what scanFile returned
DirPush ==
  /\ dir.phase = "call"
  /\ pc = "idle"
  /\ ~thrown
  /\ ret # NoReturn
  /\ dir' = [dir EXCEPT !.phase = "loop", !.entries = Append(@, ret)]
  /\ UNCHANGED <<rules, pc, thrown, template, filePath, results, ri, xi, calls>>
  /\ UNCHANGED <<arg, firstReg, prev, scanner, pending, other, ret>>

\* a catch block that lets the error end scanDirectory
DirCatch_Rethrows ==
  /\ dir.phase = "call"
  /\ thrown
  /\ dir' = [dir EXCEPT !.phase = "returned"]
  /\ UNCHANGED <<rules, pc, thrown, template, filePath, results, ri, xi, calls>>
  /\ UNCHANGED <<arg, firstReg, prev, scanner, pending, other, ret>>

\* the catch block of scanDirectory
DirCatch ==
  /\ dir.phase = "call"
  /\ thrown
  /\ dir' = [dir EXCEPT !.phase = "loop",
                        !.entries = Append(@, [file |-> dir.file,
                                               error |-> NotFoundMessage(dir.file),
                                               results |-> <<>>])]
  /\ stats' = [stats EXCEPT !.errors = @ + 1]
  /\ thrown' = FALSE
  /\ UNCHANGED <<rules, pc, template, filePath, results, ri, xi, calls>>
  /\ UNCHANGED <<arg, firstReg, prev, options, spc, scanned, pending, other, ret>>

\* return results
DirReturn ==
  /\ dir.phase = "loop"
  /\ dir.queue = <<>>
  /\ dir' = [dir EXCEPT !.phase = "returned"]
  /\ UNCHANGED <<rules, pc, thrown, template, filePath, results, ri, xi, calls>>
  /\ UNCHANGED <<arg, firstReg, prev, scanner, pending, other, ret>>

DirInit == EngineInit /\ \E o \in OptionInputs : Constructor(o)

DirNext ==
  \/ Initialize
  \/ \E l \in DirListings : DirStart(l)
  \/ DirSkip
  \/ DirPick
  \/ DirScanFile
  \/ ResourceSkip
  \/ \E o \in UsualOutcomes : ResourceCheck(o)
  \/ \E o \in UsualOutcomes : TemplateCheck(o)
  \/ NextRule
  \/ Return
  \/ ScanFinish
  \/ DirPush
  \/ DirCatch
  \/ DirReturn

DirSpec == DirInit /\ [][DirNext]_vars

\* the paths of the listed files that scanDirectory is through with, the
\* templates among them
Handled ==
  LET n    == Len(dir.listing) - Len(dir.queue) - (IF dir.phase = "call" THEN 1 ELSE 0)
      done == SubSeq(dir.listing, 1, n)
      cfn  == SelectSeq(done, LAMBDA i : IsCloudFormationTemplate(DirCatalog[i]))
  IN  [k \in DOMAIN cfn |-> DirCatalog[cfn[k]].path]

\* one entry for each template handled, in the order of the listing
OneEntryEach ==
  /\ Len(dir.entries) = Len(Handled)
  /\ \A k \in DOMAIN Handled : dir.entries[k].file = Handled[k]
  /\ dir.phase = "returned" => dir.queue = <<>> /\ ~thrown

\* C30: file-level fault isolation in scanDirectory.  When scanFile throws
\* for a file, the throw itself changes neither statistics nor findings, and
\* the next step of scanDirectory records the one entry {file, error,
\* results: []} of that file, adds one to stats.errors, leaves every other
\* statistic, the accumulated findings and the earlier entries as they were,
\* and is back in the loop over the remaining files with nothing thrown;
\* scanDirectory returns only when no file is left, with one entry for each
\* template listed.
C30_FaultIsolation ==
  [][/\ (dir.phase = "call" /\ ~thrown /\ thrown') =>
          UNCHANGED <<stats, scanned, dir>>
     /\ (dir.phase = "call" /\ thrown) =>
          /\ dir' = [phase |-> "loop", listing |-> dir.listing, queue |-> dir.queue,
                     file |-> dir.file,
                     entries |-> Append(dir.entries,
                                        [file |-> dir.file,
                                         error |-> NotFoundMessage(dir.file),
                                         results |-> <<>>])]
          /\ stats' = [stats EXCEPT !.errors = @ + 1]
          /\ scanned' = scanned
          /\ ~thrown'
     /\ OneEntryEach']_vars

\* scanDirectory has returned two entries: the first file was gone when
\* scanFile looked for it, and the file after it was scanned and has findings
C30_Witness ==
  /\ dir.phase = "returned"
  /\ ~thrown
  /\ Len(dir.entries) = 2
  /\ dir.entries[1] = [file |-> "stack.yaml",
                       error |-> "File not found: stack.yaml", results |-> <<>>]
  /\ dir.entries[2].file = "bucket.yaml"
  /\ dir.entries[2].error = Undefined
  /\ dir.entries[2].results = scanned /\ scanned # <<>>
  /\ stats.errors = 1 /\ stats.filesScanned = 1

====
